---- MODULE Spec2Model ----
(***************************************************************************)
(* A model of instagram/oauth2.py: the OAuth2 token exchange, the request  *)
(* signer, the three encoders and the request builder, as the code runs    *)
(* under Python 3 (six.PY3 true, six.text_type = str, dicts keep their     *)
(* insertion order).                                                       *)
(*                                                                         *)
(* A Python str is a sequence of lexemes.  A lexeme is one character, or   *)
(* one of the fixed words of the code's string literals ("access_token",   *)
(* "?", "&sig=" is <<"&", "sig", "=">>, ...), which is never split.  The   *)
(* data alphabets hold single characters none of which starts a word, so a *)
(* str has one representation, Join gives the Python text, and the order   *)
(* of sequences by TokenRank is Python's order of the strs.                *)
(* A dict is a sequence of entries in insertion order, with unique keys.   *)
(***************************************************************************)
EXTENDS Naturals, Sequences, FiniteSets, TLC

VARIABLES api, params, call

vars == <<api, params, call>>

----------------------------------------------------------------------------
(* Python values *)

\* Python's None, distinct from every str (also from the str "None").
None == <<"<None>">>

\* six.PY3: the interpreter the code runs on.
PY3 == TRUE

\* bool(x) of an optional str: None and "" are falsy.
Truthy(x) == x # None /\ x # <<>>

\* str(x), and "{}".format(x): None renders as the word None.
Str(x) == IF x = None THEN <<"None">> ELSE x

RECURSIVE Join(_)
\* the Python text of a str
Join(s) == IF s = <<>> THEN "" ELSE Head(s) \o Join(Tail(s))

RECURSIVE Cat(_)
\* "".join(parts)
Cat(parts) == IF parts = <<>> THEN <<>> ELSE Head(parts) \o Cat(Tail(parts))

RECURSIVE JoinWith(_, _)
\* sep.join(parts)
JoinWith(sep, parts) ==
    IF parts = <<>> THEN <<>>
    ELSE IF Len(parts) = 1 THEN Head(parts)
    ELSE Head(parts) \o sep \o JoinWith(sep, Tail(parts))

RECURSIVE CharLen(_)
\* len(s): the number of characters of a str
CharLen(s) == IF s = <<>> THEN 0 ELSE Len(Head(s)) + CharLen(Tail(s))

Digit(d) == CASE d = 0 -> "0" [] d = 1 -> "1" [] d = 2 -> "2" [] d = 3 -> "3"
              [] d = 4 -> "4" [] d = 5 -> "5" [] d = 6 -> "6" [] d = 7 -> "7"
              [] d = 8 -> "8" [] d = 9 -> "9"

RECURSIVE StrNat(_)
\* str(n) of a non-negative int
StrNat(n) == IF n < 10 THEN <<Digit(n)>> ELSE StrNat(n \div 10) \o <<Digit(n % 10)>>

\* s ends with suf
EndsWith(s, suf) == Len(suf) <= Len(s) /\ SubSeq(s, Len(s) - Len(suf) + 1, Len(s)) = suf

\* The lexemes a dict key may hold, in Python's (code point) order of their text.
KeyLexemes == <<"B", "access_token", "client_id", "client_secret", "files", "q">>

TokenRank(t) == CHOOSE i \in 1..Len(KeyLexemes) : KeyLexemes[i] = t

RECURSIVE StrLess(_, _)
\* a < b for two strs
StrLess(a, b) ==
    IF b = <<>> THEN FALSE
    ELSE IF a = <<>> THEN TRUE
    ELSE IF Head(a) = Head(b) THEN StrLess(Tail(a), Tail(b))
    ELSE TokenRank(Head(a)) < TokenRank(Head(b))

----------------------------------------------------------------------------
(* dicts *)

\* one item of a params dict: a text value, or under the key 'files' the
\* files sub-mapping (a dict field name -> (file_name, file_handle))
Entry(k, v, f) == [key |-> k, val |-> v, files |-> f]

Keys(m) == {m[i].key : i \in 1..Len(m)}

HasKey(m, k) == k \in Keys(m)

Index(m, k) == CHOOSE i \in 1..Len(m) : m[i].key = k

\* m[k] = v: replaces the value in place, or appends a new item
Put(m, k, v) ==
    IF HasKey(m, k)
    THEN [m EXCEPT ![Index(m, k)] = Entry(k, v, <<>>)]
    ELSE Append(m, Entry(k, v, <<>>))

\* params.get('files'): the files sub-mapping, <<>> when there is none
GetFiles(m) == IF HasKey(m, <<"files">>) THEN m[Index(m, <<"files">>)].files ELSE <<>>

\* one item of a files sub-mapping: field name -> (file_name, file_handle).
\* The handle is an object of the caller: its read() returns bytes when it
\* is binary, else a str; repr is the text of repr(file_handle); consumed
\* says that its position is at the end of the file
File(field, name, content, binary, handle_repr, consumed) ==
    [key |-> field, name |-> name, content |-> content, binary |-> binary,
     repr |-> handle_repr, consumed |-> consumed]

\* the reprs of the handles: a StringIO, a BytesIO, an opened text file
StringIORepr == <<"<_io.StringIO object at 0x7f46c747d480>">>
BytesIORepr == <<"<_io.BytesIO object at 0x7f46c747d4e0>">>
TextFileRepr == <<"<_io.TextIOWrapper name='d.zz' mode='r' encoding='utf-8'>">>

\* file_handle.read(): what is left of the content
read(f) == IF f.consumed THEN <<>> ELSE f.content

\* the files sub-mapping after every handle was read to its end
AllRead(files) == [i \in 1..Len(files) |-> [files[i] EXCEPT !.consumed = TRUE]]

\* a params dict after the handles of its files sub-mapping were read
HandlesRead(m) == [i \in 1..Len(m) |-> [m[i] EXCEPT !.files = AllRead(m[i].files)]]

\* str(params['files']): the repr of the files dict
files_repr(files) ==
    <<"{">>
    \o JoinWith(<<",", " ">>,
                [i \in 1..Len(files) |->
                    <<"'">> \o files[i].key \o <<"'", ":", " ", "(", "'">> \o files[i].name
                    \o <<"'", ",", " ">> \o files[i].repr \o <<")">>])
    \o <<"}">>

\* str(value) of an item of a dict
field_str(e) == IF e.key = <<"files">> THEN files_repr(e.files) ELSE Str(e.val)

RECURSIVE sorted(_)
\* sorted(keys) of a set of strs
sorted(ks) ==
    IF ks = {} THEN <<>>
    ELSE LET least == CHOOSE k \in ks : \A o \in ks \ {k} : StrLess(k, o)
         IN  <<least>> \o sorted(ks \ {least})

----------------------------------------------------------------------------
(* urlencode *)

\* quote_plus of one lexeme: letters, digits and "_.-~" stay, a space
\* becomes "+", every other character its %XX escape
quote_plus_char(c) ==
    CASE c = " "  -> <<"+">>
      [] c = "&"  -> <<"%", "2", "6">>
      [] c = "="  -> <<"%", "3", "D">>
      [] c = "/"  -> <<"%", "2", "F">>
      [] c = ":"  -> <<"%", "3", "A">>
      [] c = "|"  -> <<"%", "7", "C">>
      [] c = "'"  -> <<"%", "2", "7">>
      [] c = "%"  -> <<"%", "2", "5">>
      [] c = "+"  -> <<"%", "2", "B">>
      [] c = "?"  -> <<"%", "3", "F">>
      [] c = ","  -> <<"%", "2", "C">>
      [] c = "{"  -> <<"%", "7", "B">>
      [] c = "}"  -> <<"%", "7", "D">>
      [] c = "("  -> <<"%", "2", "8">>
      [] c = ")"  -> <<"%", "2", "9">>
      [] <<c>> = StringIORepr -> <<"%3C_io.StringIO+object+at+0x7f46c747d480%3E">>
      [] <<c>> = BytesIORepr -> <<"%3C_io.BytesIO+object+at+0x7f46c747d4e0%3E">>
      [] <<c>> = TextFileRepr -> <<"%3C_io.TextIOWrapper+name%3D%27d.zz%27+mode%3D%27r%27+encoding%3D%27utf-8%27%3E">>
      [] OTHER    -> <<c>>

RECURSIVE quote_plus(_)
quote_plus(s) == IF s = <<>> THEN <<>> ELSE quote_plus_char(Head(s)) \o quote_plus(Tail(s))

\* urlencode(dict): quote_plus(str(k)) "=" quote_plus(str(v)) for the items
\* in the dict's order, joined by "&"
urlencode(m) ==
    JoinWith(<<"&">>,
             [i \in 1..Len(m) |-> quote_plus(Str(m[i].key)) \o <<"=">> \o quote_plus(field_str(m[i]))])

----------------------------------------------------------------------------
(* OAuth2API: class attributes and the credentials of one api object *)

\* the class attributes a subclass overrides: None in OAuth2API itself, or
\* what a subclass for one provider sets them to
ClassAttributes ==
    { [host |-> None, base_path |-> None, access_token_url |-> None],
      [host |-> <<"api.example.com">>, base_path |-> <<"/", "v1">>,
       access_token_url |-> <<"https", "://", "api.example.com", "/", "token">>] }

\* self.api.host, self.api.base_path, self.api.access_token_url
host == api.host
base_path == api.base_path
access_token_url == api.access_token_url

access_token_field == <<"access_token">>
protocol == <<"https">>
api_name == <<"Generic API">>
redirect_uri == None

\* the values a credential is constructed with
ClientIds == {None, <<"I">>}
ClientSecrets == {None, <<>>, <<"S">>}
AccessTokens == {None, <<"T">>}

\* OAuth2API.__init__
OAuth2API(cls, client_id, client_secret, access_token) ==
    [host |-> cls.host, base_path |-> cls.base_path, access_token_url |-> cls.access_token_url,
     client_id |-> client_id, client_secret |-> client_secret, access_token |-> access_token]

Apis ==
    {OAuth2API(c, i, s, t) :
        c \in ClassAttributes, i \in ClientIds, s \in ClientSecrets, t \in AccessTokens}

----------------------------------------------------------------------------
(* Signer *)

\* hmac.new(key, msg, sha256).hexdigest(): the digest is not computed; it is
\* one lexeme that names the key and the message, so two digests are equal
\* exactly when their keys and messages are
hmac_hexdigest(key, msg) == <<"hmac_sha256[" \o Join(key) \o "](" \o Join(msg) \o ")">>

\* enc_if_str(p) of the value of an item: a str value is encoded to its
\* UTF-8 bytes, any other value (the files dict) is left as it is
enc_if_str(e) ==
    IF e.key = <<"files">> THEN [bytes |-> FALSE, data |-> field_str(e)]
    ELSE [bytes |-> TRUE, data |-> e.val]

\* "{val}".format(val=x): bytes format as their repr under Python 3 (b'..')
\* and are the str itself under Python 2; any other value formats as its str
format_val(x) ==
    IF x.bytes /\ PY3 THEN <<"b", "'">> \o x.data \o <<"'">> ELSE x.data

\* the text _generate_sig hashes
sig_base(endpoint, p) ==
    LET ks == sorted(Keys(p))
    IN  endpoint \o Cat([i \in 1..Len(ks) |->
            <<"|">> \o ks[i] \o <<"=">> \o format_val(enc_if_str(p[Index(p, ks[i])]))])

_generate_sig(endpoint, p, secret) == hmac_hexdigest(secret, sig_base(endpoint, p))

----------------------------------------------------------------------------
(* RequestBuilder *)

\* _auth_query with the include_secret test dropped: the secret always follows
\* the client id
_auth_query_secret_always(include_secret) ==
    IF Truthy(api.access_token)
    THEN <<"?">> \o access_token_field \o <<"=">> \o api.access_token
    ELSE IF Truthy(api.client_id)
    THEN <<"?", "client_id", "=">> \o api.client_id
         \o <<"&", "client_secret", "=">> \o Str(api.client_secret)
    ELSE None

_auth_query(include_secret) ==
    IF Truthy(api.access_token)
    THEN <<"?">> \o access_token_field \o <<"=">> \o api.access_token
    ELSE IF Truthy(api.client_id)
    THEN <<"?", "client_id", "=">> \o api.client_id
         \o (IF include_secret
             THEN <<"&", "client_secret", "=">> \o Str(api.client_secret)
             ELSE <<>>)
    ELSE None

\* the params dict as _signed_request leaves it: the dict it is handed is
\* the one it writes to
_signed_request_params(p, include_signed_request, include_secret) ==
    IF include_signed_request /\ api.client_secret # None
    THEN LET p1 == IF Truthy(api.access_token)
                   THEN Put(p, <<"access_token">>, api.access_token)
                   ELSE IF Truthy(api.client_id)
                   THEN Put(p, <<"client_id">>, api.client_id)
                   ELSE p
         IN  IF include_secret /\ Truthy(api.client_secret)
             THEN Put(p1, <<"client_secret">>, api.client_secret)
             ELSE p1
    ELSE p

\* the text _signed_request returns
_signed_request(path, p, include_signed_request, include_secret) ==
    IF include_signed_request /\ api.client_secret # None
    THEN <<"&", "sig", "=">>
         \o _generate_sig(path,
                          _signed_request_params(p, include_signed_request, include_secret),
                          api.client_secret)
    ELSE <<>>

\* _full_url with the signature left off the URL
_full_url_unsigned(path, include_secret, include_signed_request) ==
    Cat(<<protocol, <<"://">>, Str(host), Str(base_path), path,
          Str(_auth_query(include_secret))>>)

_full_url(path, include_secret, include_signed_request) ==
    LET signed_request == _signed_request(path, <<>>, include_signed_request, include_secret)
    IN  Cat(<<protocol, <<"://">>, Str(host), Str(base_path), path,
              Str(_auth_query(include_secret)), signed_request>>)

_full_query_with_params(p) ==
    IF p = <<>> THEN <<>> ELSE <<"&">> \o urlencode(p)

\* _signed_request runs first and writes to params; the query is encoded
\* from the dict it left; _full_url is called with its default
\* include_signed_request=True
_full_url_with_params(path, p, include_secret, include_signed_request) ==
    LET signed_request == _signed_request(path, p, include_signed_request, include_secret)
        written == _signed_request_params(p, include_signed_request, include_secret)
    IN  Cat(<<_full_url(path, include_secret, TRUE),
              _full_query_with_params(written), signed_request>>)

_post_body(p) == urlencode(p)

----------------------------------------------------------------------------
(* Encoder: multipart *)

boundary == <<"MuL7Ip4rt80uND4rYF0o">>

CRLF == <<"\r\n">>

\* mimetypes.guess_type(file_name)[0] or "application/octet-stream"
get_content_type(file_name) ==
    IF EndsWith(file_name, <<".jpg">>) THEN <<"image/jpeg">>
    ELSE IF EndsWith(file_name, <<".txt">>) THEN <<"text/plain">>
    ELSE <<"application/octet-stream">>

\* encode_field(field_name): the four lines of a text part
encode_field(e) ==
    << <<"--">> \o boundary,
       <<"Content-Disposition: form-data; name=\"">> \o e.key \o <<"\"">>,
       <<>>,
       field_str(e) >>

\* encode_file(field_name): the five lines of a file part
encode_file(f) ==
    << <<"--">> \o boundary,
       <<"Content-Disposition: form-data; name=\"">> \o f.key
           \o <<"\"; filename=\"">> \o f.name \o <<"\"">>,
       <<"Content-Type: ">> \o get_content_type(f.name),
       <<>>,
       read(f) >>

\* the lines list: a part for every key of params (the key 'files' too),
\* a part for every file, and the closing lines
multipart_lines(p, files) ==
    Cat([i \in 1..Len(p) |-> encode_field(p[i])])
    \o Cat([i \in 1..Len(files) |-> encode_file(files[i])])
    \o << <<"--">> \o boundary \o <<"--">>, <<>> >>

\* "\r\n".join(lines) raises TypeError when a line is bytes (Python 3)
multipart_raises(files) == PY3 /\ \E i \in 1..Len(files) : files[i].binary

\* the (body, headers) _encode_multipart returns
_encode_multipart(p, files) ==
    LET body == JoinWith(CRLF, multipart_lines(p, files))
    IN  [body |-> body,
         headers |-> << Entry(<<"Content-Type">>,
                              <<"multipart/form-data; boundary=">> \o boundary, <<>>),
                        Entry(<<"Content-Length">>, StrNat(CharLen(body)), <<>>) >>]

----------------------------------------------------------------------------
(* prepare_request, make_request *)

GET == <<"GET">>
POST == <<"POST">>

\* the tuple (url, method, body, headers)
Request(url, method, body, headers) ==
    [url |-> url, method |-> method, body |-> body, headers |-> headers]

NoRequest == Request(None, None, None, <<>>)

\* what a call gave: a returned value, or the exception it raised
Returned(req) == [exc |-> "", req |-> req]
Raised(exc) == [exc |-> exc, req |-> NoRequest]

prepare_request(method, path, p, include_secret) ==
    IF GetFiles(p) = <<>>
    THEN Returned(Request(
             _full_url_with_params(path, p, include_secret, TRUE),
             method,
             IF method = POST THEN _post_body(p) ELSE None,
             IF method = POST
             THEN << Entry(<<"Content-Type">>, <<"application/x-www-form-urlencoded">>, <<>>) >>
             ELSE <<>>))
    ELSE IF multipart_raises(GetFiles(p))
    THEN Raised("TypeError")
    ELSE LET mp == _encode_multipart(p, GetFiles(p))
         IN  Returned(Request(_full_url(path, FALSE, TRUE), method, mp.body, mp.headers))

\* the params dict after prepare_request: the non-multipart path hands it
\* to _signed_request, the multipart path reads its file handles
prepare_request_params(p, include_secret) ==
    IF GetFiles(p) = <<>> THEN _signed_request_params(p, TRUE, include_secret)
    ELSE HandlesRead(p)

\* what make_request hands to Http.request; url is whatever object came as
\* the first argument: a str (is_tuple false) or a whole tuple
Sent(is_tuple, url, tuple, method, body, headers, validate) ==
    [is_tuple |-> is_tuple, url |-> url, tuple |-> tuple, method |-> method,
     body |-> body, headers |-> headers, validate_certificate |-> validate]

NoSent == Sent(FALSE, None, NoRequest, None, None, <<>>, TRUE)

\* headers = headers or {}; a User-Agent is added when there is none
with_user_agent(headers) ==
    IF HasKey(headers, <<"User-Agent">>) THEN headers
    ELSE Put(headers, <<"User-Agent">>, api_name \o <<" Python Client">>)

make_request(is_tuple, url, tuple, method, body, headers) ==
    Sent(is_tuple, url, tuple, method, body, with_user_agent(headers), PY3)

----------------------------------------------------------------------------
(* AuthExchange *)

\* the arguments of exchange_for_access_token
Grant(code, username, password, scope, user_id) ==
    [code |-> code, username |-> username, password |-> password,
     scope |-> scope, user_id |-> user_id]

\* exchange_code_for_access_token, exchange_xauth_login_for_access_token
\* (without and with a scope), exchange_user_id_for_access_token
Grants ==
    { Grant(<<"c">>, None, None, <<>>, None),
      Grant(None, <<"u">>, <<"p">>, <<>>, None),
      Grant(None, <<"u">>, <<"p">>, << <<"basic">>, <<"likes">> >>, None),
      Grant(None, None, None, <<>>, <<"7">>) }

_data_for_exchange(g) ==
    LET client_params ==
            << Entry(<<"client_id">>, api.client_id, <<>>),
               Entry(<<"client_secret">>, api.client_secret, <<>>),
               Entry(<<"redirect_uri">>, redirect_uri, <<>>),
               Entry(<<"grant_type">>, <<"authorization_code">>, <<>>) >>
        updated ==
            IF Truthy(g.code)
            THEN Put(client_params, <<"code">>, g.code)
            ELSE IF Truthy(g.username) /\ Truthy(g.password)
            THEN LET pw == Put(Put(Put(client_params, <<"username">>, g.username),
                                   <<"password">>, g.password),
                               <<"grant_type">>, <<"password">>)
                 IN  IF g.scope # <<>>
                     THEN Put(pw, <<"scope">>, JoinWith(<<" ">>, g.scope))
                     ELSE pw
            ELSE IF Truthy(g.user_id)
            THEN Put(client_params, <<"user_id">>, g.user_id)
            ELSE client_params
    IN  urlencode(updated)

\* what the token endpoint answers: response['status'] and the content.
\* The content is undecodable bytes, text that is no JSON, a JSON value
\* that is no object, or a JSON object (a dict of its fields)
Response(status, form, obj) == [status |-> status, form |-> form, obj |-> obj]

Statuses == {"200", "400"}

Objects ==
    { <<>>,
      << Entry(<<"error_message">>, <<"bad code">>, <<>>) >>,
      << Entry(<<"access_token">>, <<"T">>, <<>>) >>,
      << Entry(<<"access_token">>, <<"T">>, <<>>), Entry(<<"user">>, <<"{id: 1}">>, <<>>) >>,
      << Entry(<<"access_token">>, <<"T">>, <<>>), Entry(<<"user">>, <<"{id: 1}">>, <<>>),
         Entry(<<"error_message">>, <<"m">>, <<>>) >> }

Responses ==
    {Response(s, f, <<>>) : s \in Statuses, f \in {"undecodable", "not_json", "array"}}
    \cup {Response(s, "object", o) : s \in Statuses, o \in Objects}

\* int(response['status'])
int(s) == CASE s = "200" -> 200 [] s = "400" -> 400

\* dict.get(key, default) / dict[key]
Get(m, k, default) == IF HasKey(m, k) THEN m[Index(m, k)].val ELSE default

\* what exchange_for_access_token gives: the exception raised (with the
\* description of an OAuth2AuthExchangeError), or the returned pair
Exchanged(exc, description, access_token, user) ==
    [exc |-> exc, description |-> description, access_token |-> access_token, user |-> user]

NoExchange == Exchanged("", None, None, None)

\* the body is decoded and parsed before the status is looked at
exchange_for_access_token(r) ==
    IF r.form = "undecodable" THEN Exchanged("UnicodeDecodeError", None, None, None)
    ELSE IF r.form = "not_json" THEN Exchanged("JSONDecodeError", None, None, None)
    ELSE IF int(r.status) # 200
    THEN IF r.form # "object"
         THEN Exchanged("AttributeError", None, None, None)
         ELSE Exchanged("OAuth2AuthExchangeError",
                        Get(r.obj, <<"error_message">>, <<>>), None, None)
    ELSE IF r.form # "object" THEN Exchanged("TypeError", None, None, None)
    ELSE IF ~HasKey(r.obj, <<"access_token">>) THEN Exchanged("KeyError", None, None, None)
    ELSE IF ~HasKey(r.obj, <<"user">>) THEN Exchanged("KeyError", None, None, None)
    ELSE Exchanged("", None, Get(r.obj, <<"access_token">>, None), Get(r.obj, <<"user">>, None))

\* the POST that exchange_for_access_token hands to Http.request
exchange_sent(g) ==
    Sent(FALSE, access_token_url, NoRequest, POST, _data_for_exchange(g),
         << Entry(<<"Content-Type">>, <<"application/x-www-form-urlencoded">>, <<>>) >>,
         FALSE)

----------------------------------------------------------------------------
(* inputs *)

\* the most items a caller's params dict is built with
MaxParams == 2

Paths == {<<"/", "tags">>}

ParamKeys == {<<"B">>, <<"q">>}
ParamValues == {<<"y", " ", "=">>}
SignerValues == {<<"x">>, <<"y", " ", "=">>}

TextEntries(keys, values) == {Entry(k, v, <<>>) : k \in keys, v \in values}

\* the files sub-mappings: a text-mode file, a binary-mode file, two files
FileMaps ==
    { << File(<<"photo">>, <<"p", ".jpg">>, <<"D", "1">>, FALSE, StringIORepr, FALSE) >>,
      << File(<<"photo">>, <<"p", ".jpg">>, <<"D", "1">>, TRUE, BytesIORepr, FALSE) >>,
      << File(<<"photo">>, <<"p", ".jpg">>, <<"D", "1">>, FALSE, StringIORepr, FALSE),
         File(<<"doc">>, <<"d", ".zz">>, <<"D", "2">>, FALSE, TextFileRepr, FALSE) >> }

FilesEntries == {Entry(<<"files">>, None, f) : f \in FileMaps}

RECURSIVE Dicts(_, _)
\* the dicts of at most n items over the given entries, in every insertion order
Dicts(entries, n) ==
    IF n = 0 THEN {<<>>}
    ELSE LET shorter == Dicts(entries, n - 1)
         IN  shorter \cup UNION {{Append(m, e) : e \in {x \in entries : ~HasKey(m, x.key)}} :
                                    m \in shorter}

ParamSets == Dicts(TextEntries(ParamKeys, ParamValues) \cup FilesEntries, MaxParams)

\* the mappings handed to the signer directly
SignerParamSets ==
    Dicts(TextEntries(ParamKeys \cup {<<"access_token">>}, SignerValues), MaxParams)

----------------------------------------------------------------------------
(* state *)

\* the arguments of the last call
Args(method, path, include_secret) ==
    [method |-> method, path |-> path, include_secret |-> include_secret]

\* the last call: its name and arguments, the params dict as it was handed
\* in, what prepare_request gave in it, what reached Http.request, a text
\* result, and the outcome of an exchange
Call(op, args, params_in, prepared, sent, val, exchange, response) ==
    [op |-> op, args |-> args, params_in |-> params_in, prepared |-> prepared,
     sent |-> sent, val |-> val, exchange |-> exchange, response |-> response]

NoCall ==
    Call("none", Args(None, None, FALSE), <<>>, Raised(""), NoSent, None,
         NoExchange, Response("", "", <<>>))

Init ==
    /\ api \in Apis
    /\ params \in ParamSets
    /\ call = NoCall

\* prepare_request(method, path, params, include_secret) on the caller's dict
PrepareRequest(method, path, include_secret) ==
    /\ call' = Call("prepare_request", Args(method, path, include_secret), params,
                    prepare_request(method, path, params, include_secret),
                    NoSent, None, NoExchange, NoCall.response)
    /\ params' = prepare_request_params(params, include_secret)
    /\ UNCHANGED api

\* prepare_and_make_request: the tuple is unpacked into make_request
PrepareAndMakeRequest(method, path, include_secret) ==
    LET prepared == prepare_request(method, path, params, include_secret)
    IN  /\ call' = Call("prepare_and_make_request", Args(method, path, include_secret),
                        params, prepared,
                        IF prepared.exc = ""
                        THEN make_request(FALSE, prepared.req.url, NoRequest,
                                          prepared.req.method, prepared.req.body,
                                          prepared.req.headers)
                        ELSE NoSent,
                        None, NoExchange, NoCall.response)
        /\ params' = prepare_request_params(params, include_secret)
        /\ UNCHANGED api

\* get_request(path, **params) / post_request(path, **params): kwargs is a
\* dict of its own (the file handles in it are the caller's objects), and
\* the whole tuple prepare_request returns is the first argument of
\* make_request, whose method, body and headers keep their defaults
RequestWith(op, method, path) ==
    LET prepared == prepare_request(method, path, params, FALSE)
    IN  /\ call' = Call(op, Args(method, path, FALSE), params, prepared,
                        IF prepared.exc = ""
                        THEN make_request(TRUE, None, prepared.req, GET, None, <<>>)
                        ELSE NoSent,
                        None, NoExchange, NoCall.response)
        /\ params' = IF GetFiles(params) = <<>> THEN params ELSE HandlesRead(params)
        /\ UNCHANGED api

GetRequest(path) == RequestWith("get_request", GET, path)

PostRequest(path) == RequestWith("post_request", POST, path)

\* url_for_get(path, parameters) on the caller's dict
UrlForGet(path) ==
    /\ call' = Call("url_for_get", Args(GET, path, FALSE), params, Raised(""), NoSent,
                    _full_url_with_params(path, params, FALSE, TRUE),
                    NoExchange, NoCall.response)
    /\ params' = _signed_request_params(params, TRUE, FALSE)
    /\ UNCHANGED api

Next ==
    \/ \E m \in {GET, POST}, path \in Paths, s \in BOOLEAN : PrepareRequest(m, path, s)
    \/ \E m \in {GET, POST}, path \in Paths, s \in BOOLEAN : PrepareAndMakeRequest(m, path, s)
    \/ \E path \in Paths : GetRequest(path)
    \/ \E path \in Paths : PostRequest(path)
    \/ \E path \in Paths : UrlForGet(path)

Spec == Init /\ [][Next]_vars

----------------------------------------------------------------------------
(* the signer alone *)

InitSigner ==
    /\ api \in {OAuth2API(c, None, s, None) : c \in ClassAttributes, s \in ClientSecrets \ {None}}
    /\ params \in SignerParamSets
    /\ call = NoCall

\* _generate_sig(endpoint, params, secret)
GenerateSig(endpoint) ==
    /\ call' = Call("_generate_sig", Args(None, endpoint, FALSE), params, Raised(""), NoSent,
                    _generate_sig(endpoint, params, api.client_secret),
                    NoExchange, NoCall.response)
    /\ UNCHANGED <<api, params>>

NextSigner == \E endpoint \in Paths \cup {<<"/", "users", "/", "1", "/", "media">>} : GenerateSig(endpoint)

SpecSigner == InitSigner /\ [][NextSigner]_vars

----------------------------------------------------------------------------
(* the token exchange alone *)

InitExchange ==
    /\ api \in Apis
    /\ params = <<>>
    /\ call = NoCall

\* exchange_for_access_token with the arguments g, the token endpoint
\* answering r
ExchangeForAccessToken(g, r) ==
    /\ call' = Call("exchange_for_access_token", Args(POST, None, FALSE), params, Raised(""),
                    exchange_sent(g), None, exchange_for_access_token(r), r)
    /\ UNCHANGED <<api, params>>

NextExchange == \E g \in Grants, r \in Responses : ExchangeForAccessToken(g, r)

SpecExchange == InitExchange /\ [][NextExchange]_vars

----------------------------------------------------------------------------
(* properties *)

\* the number of places where pat occurs in s
Occurs(pat, s) ==
    Cardinality({i \in 1..Len(s) :
                    /\ i + Len(pat) - 1 <= Len(s)
                    /\ SubSeq(s, i, i + Len(pat) - 1) = pat})

\* s starts with pre
StartsWith(s, pre) == Len(pre) <= Len(s) /\ SubSeq(s, 1, Len(pre)) = pre

SigMark == <<"&", "sig", "=">>

\* {protocol}://{host}{base_path}{path}
UrlBase(path) == Cat(<<protocol, <<"://">>, Str(host), Str(base_path), path>>)

\* the dict that holds the injected credential and nothing else
CredentialOnly ==
    IF Truthy(api.access_token) THEN << Entry(<<"access_token">>, api.access_token, <<>>) >>
    ELSE IF Truthy(api.client_id) THEN << Entry(<<"client_id">>, api.client_id, <<>>) >>
    ELSE <<>>

\* a call of prepare_request that returned its tuple
Prepared == call.op = "prepare_request" /\ call.prepared.exc = ""

Multipart == GetFiles(call.params_in) # <<>>

\* url is lead, or lead followed by one signature suffix and nothing more
EndsAfter(url, lead) ==
    \/ url = lead
    \/ /\ Len(url) = Len(lead) + Len(SigMark) + 1
       /\ StartsWith(url, lead \o SigMark)

\* the keys of a dict in order, each with its value (for the files
\* sub-mapping the field names, file names and handles, whatever the
\* positions of the handles)
Items(m) ==
    [i \in 1..Len(m) |->
        <<m[i].key, m[i].val,
          [j \in 1..Len(m[i].files) |->
              <<m[i].files[j].key, m[i].files[j].name, m[i].files[j].repr>>]>>]

\* C1: prepare_request leaves the caller's params dict with the keys and
\* values it was handed in with.
C1_ParamsUntouched ==
    call.op \in {"prepare_request", "prepare_and_make_request"}
        => Items(params) = Items(call.params_in)

\* C2: for a request without files the URL is
\* {protocol}://{host}{base_path}{path}{auth_query}{params_query}{signature},
\* the auth query once, each caller parameter once, the signature at most
\* once and last.
C2_UrlLayout ==
    (Prepared /\ ~Multipart) =>
        /\ EndsAfter(call.prepared.req.url,
                     UrlBase(call.args.path)
                     \o Str(_auth_query(call.args.include_secret))
                     \o _full_query_with_params(call.params_in))
        /\ Occurs(SigMark, call.prepared.req.url) <= 1

\* C3 as claimed: the URL of a multipart request carries no '&sig='.
C3_MultipartUnsigned ==
    (Prepared /\ Multipart) => Occurs(SigMark, call.prepared.req.url) = 0

\* C3 as amended: the URL of a multipart request is the base URL and the auth
\* query, without a params query; it carries one '&sig=' exactly when a
\* client secret is configured, the signature of the path and the injected
\* credential alone.
C3_MultipartUrl ==
    (Prepared /\ Multipart) =>
        LET url == call.prepared.req.url
            plain == UrlBase(call.args.path) \o Str(_auth_query(FALSE))
        IN  IF api.client_secret = None
            THEN url = plain /\ Occurs(SigMark, url) = 0
            ELSE /\ url = plain \o SigMark
                          \o _generate_sig(call.args.path, CredentialOnly, api.client_secret)
                 /\ Occurs(SigMark, url) = 1

\* a multipart request with a text field, signed under a configured secret
C3_Witness ==
    /\ Prepared /\ Multipart
    /\ api.client_secret # None /\ Truthy(api.access_token)
    /\ Len(call.params_in) > 1
    /\ Occurs(SigMark, call.prepared.req.url) = 1

\* the base string the claim gives: the path, then |key=value in ascending
\* key order, a text value contributing its own characters
PlainBase(endpoint, p) ==
    LET ks == sorted(Keys(p))
    IN  endpoint \o Cat([i \in 1..Len(ks) |-> <<"|">> \o ks[i] \o <<"=">> \o Get(p, ks[i], <<>>)])

\* C4: _generate_sig hashes the path followed by |key=value in ascending key
\* order, each text value as its own characters (the path alone for empty
\* params), whatever the insertion order.
C4_SigBase ==
    call.op = "_generate_sig" =>
        call.val = hmac_hexdigest(api.client_secret, PlainBase(call.args.path, call.params_in))

\* the lines that open a part
PartOpening == <<"--">> \o boundary \o CRLF \o <<"Content-Disposition: form-data; name=\"">>

TextFields(p) == {i \in 1..Len(p) : p[i].key # <<"files">>}

\* C5: the multipart body holds one part per text field and one per file
\* field and no others, then the terminating boundary line.
C5_PartCount ==
    (Prepared /\ Multipart) =>
        /\ Occurs(PartOpening, call.prepared.req.body)
               = Cardinality(TextFields(call.params_in)) + Len(GetFiles(call.params_in))
        /\ EndsWith(call.prepared.req.body, <<"--">> \o boundary \o <<"--">> \o CRLF)

\* the response is not the expected structure
Malformed(r) ==
    \/ r.form # "object"
    \/ ~HasKey(r.obj, <<"access_token">>)
    \/ ~HasKey(r.obj, <<"user">>)

\* C6: a status other than 200, or a body that is not the expected
\* structure, makes the exchange fail with OAuth2AuthExchangeError, carrying
\* the server's error_message when there is one; no token is returned.
C6_ExchangeError ==
    (/\ call.op = "exchange_for_access_token"
     /\ (int(call.response.status) # 200 \/ Malformed(call.response))) =>
        /\ call.exchange.exc = "OAuth2AuthExchangeError"
        /\ call.exchange.access_token = None
        /\ (call.response.form = "object" /\ HasKey(call.response.obj, <<"error_message">>)
              => call.exchange.description = Get(call.response.obj, <<"error_message">>, <<>>))

\* C7: with include_secret false, and params that hold no client_secret, no
\* client_secret= appears in the URL prepare_request returns.
C7_SecretNotInUrl ==
    (/\ call.op \in {"prepare_request", "prepare_and_make_request"}
     /\ call.prepared.exc = ""
     /\ ~call.args.include_secret
     /\ ~HasKey(call.params_in, <<"client_secret">>)) =>
        Occurs(<<"client_secret", "=">>, call.prepared.req.url) = 0

\* a signed request authenticated by the client id, the secret configured
C7_Witness ==
    /\ Prepared /\ ~Multipart
    /\ ~call.args.include_secret
    /\ ~HasKey(call.params_in, <<"client_secret">>)
    /\ Truthy(api.client_secret) /\ Truthy(api.client_id) /\ ~Truthy(api.access_token)
    /\ Occurs(<<"client_id", "=">>, call.prepared.req.url) > 0
    /\ Occurs(SigMark, call.prepared.req.url) > 0

\* C8: prepare_request called again with the same arguments on the same
\* params object, the credentials unchanged, returns the same tuple.
C8_Repeatable ==
    [][(/\ call.op = "prepare_request"
        /\ call'.op = "prepare_request"
        /\ call'.args = call.args
        /\ api' = api)
       => call'.prepared = call.prepared]_vars

\* C9: get_request and post_request hand make_request the url, method, body
\* and headers that prepare_request produced; the url argument is the str.
C9_TransportGetsTuple ==
    (call.op \in {"get_request", "post_request"} /\ call.prepared.exc = "") =>
        /\ ~call.sent.is_tuple
        /\ call.sent.url = call.prepared.req.url
        /\ call.sent.method = call.prepared.req.method
        /\ call.sent.body = call.prepared.req.body
        /\ call.sent.headers = with_user_agent(call.prepared.req.headers)

\* C10: with neither an access token nor a client id the auth query is
\* empty: what follows the path in the URL is nothing, or starts with '&'.
C10_NoCredentialNoText ==
    (Prepared /\ ~Truthy(api.access_token) /\ ~Truthy(api.client_id)) =>
        LET url == call.prepared.req.url
            lead == UrlBase(call.args.path)
        IN  /\ StartsWith(url, lead)
            /\ (Len(url) > Len(lead) => url[Len(lead) + 1] = "&")

====
